---- MODULE Spec2Model ----
(***************************************************************************)
(* Model of the two-party chat view (components/messaging/ChatView.tsx):   *)
(* the conversation id, the live subscription to the message log and the   *)
(* send protocol (optimistic clear, atomic batch of metadata upsert and    *)
(* message append), run by two clients against one shared store.           *)
(*                                                                         *)
(* Strings are sequences of one-character strings, compared by code unit   *)
(* as JavaScript compares them.                                            *)
(***************************************************************************)
EXTENDS Integers, Sequences, FiniteSets, TLC

\* ------------------------------------------------------------------ bounds
\* Message documents that may exist or be in flight, over all conversations.
MaxMsgs == 2
\* Longest identifier drawn for the checks of getChatId.
MaxIdLen == 2
\* Longest identifier drawn where one user has two partners.
MaxUidLen == 3
\* Files the user picks for the image widget.
MaxUploads == 3

\* ----------------------------------------------------------------- strings
\* UTF-16 code unit of each character the model uses.
Code == [ch \in {" ", "1", "2", "3", "_", "a", "b", "u"} |->
           CASE ch = " " -> 32 [] ch = "1" -> 49 [] ch = "2" -> 50
             [] ch = "3" -> 51 [] ch = "_" -> 95 [] ch = "a" -> 97
             [] ch = "b" -> 98 [] ch = "u" -> 117]

RECURSIVE StrLess(_, _)
\* a < b as JavaScript compares two strings: code unit by code unit, a
\* proper prefix first.
StrLess(a, b) ==
  IF b = <<>> THEN FALSE
  ELSE IF a = <<>> THEN TRUE
  ELSE IF Code[Head(a)] # Code[Head(b)] THEN Code[Head(a)] < Code[Head(b)]
  ELSE StrLess(Tail(a), Tail(b))

\* Array.prototype.sort() with no comparator, on a two-element array.
SortPair(p) == IF StrLess(p[2], p[1]) THEN <<p[2], p[1]>> ELSE p

\* Array.prototype.join(sep) on a two-element array.
JoinPair(p, sep) == p[1] \o sep \o p[2]

\* Faulty variant of getChatId: joins without sorting.
getChatIdUnsorted(uid1, uid2) == JoinPair(<<uid1, uid2>>, <<"_">>)

getChatId(uid1, uid2) == JoinPair(SortPair(<<uid1, uid2>>), <<"_">>)

IsSpace(ch) == ch = " "

RECURSIVE TrimStart(_)
TrimStart(s) ==
  IF s # <<>> /\ IsSpace(Head(s)) THEN TrimStart(Tail(s)) ELSE s

RECURSIVE TrimEnd(_)
TrimEnd(s) ==
  IF s # <<>> /\ IsSpace(s[Len(s)]) THEN TrimEnd(SubSeq(s, 1, Len(s) - 1))
  ELSE s

\* String.prototype.trim()
Trim(s) == TrimEnd(TrimStart(s))

\* ------------------------------------------------------------ the universe
U1 == <<"u", "1">>
U2 == <<"u", "2">>
U3 == <<"u", "3">>
Users == {U1, U2, U3}

\* One ChatView instance per signed-in user.
Clients == {"c1", "c2"}
currentUser == [c \in Clients |-> IF c = "c1" THEN U1 ELSE U2]
\* The chat partners a client can be shown with.
Partners(c) == IF c = "c1" THEN {U2, U3} ELSE {U1}

ChatIds == {getChatId(p[1], p[2]) : p \in {q \in Users \X Users : q[1] # q[2]}}

\* What a user can type into the input.
Drafts(c) == IF c = "c1" THEN {<<" ">>, <<" ", "a", " ">>} ELSE {<<"b">>}

Ids == 1 .. MaxMsgs

None == "none"
\* No conversation: the effect has not run yet.
NoChat == <<>>
PermissionDenied == "permission-denied"
Unavailable == "unavailable"
ErrorCodes == {PermissionDenied, Unavailable}

\* User-facing messages (ChatView.tsx lines 55, 106, 108).
FetchFailedMsg == "fetch-failed"
SendDeniedMsg == "send-denied"
SendFailedMsg == "send-failed"

NoDoc == [exists |-> FALSE]

VARIABLES
  \* the store
  msgs,        \* conversation id -> set of message documents
  meta,        \* conversation id -> metadata document or NoDoc
  clock,       \* the server's clock
  \* one ChatView instance per client
  partner, effectChat, subs,
  messages, newMessage, isLoading, isSending, fetchError, sendError,
  inflight,    \* client -> batches given to the store, not yet resolved
  \* history
  last,        \* the step that led to this state
  mounted,     \* client -> whether its ChatView is mounted
  orphans,     \* batches in flight whose ChatView has been unmounted
  \* inputs and result of the getChatId checks
  idA, idB, idC, idOut,
  \* the image widget (components/widgets/ImageWidget.tsx)
  data,        \* the ImageData the parent holds and passes as props
  objects,     \* the paths that have an object in storage
  isUploading,
  tasks,       \* the handlers waiting at an await
  uploads      \* the storage paths made so far

storeVars == <<msgs, meta, clock>>
viewVars == <<partner, effectChat, subs, messages, newMessage,
              isLoading, isSending, fetchError, sendError>>
idVars == <<idA, idB, idC, idOut>>
lifeVars == <<mounted, orphans>>
imageVars == <<data, objects, isUploading, tasks, uploads>>
\* The variables the chat view has no part in.
asideVars == <<idVars, imageVars>>
vars == <<msgs, meta, clock, partner, effectChat, subs, messages,
          newMessage, isLoading, isSending, fetchError, sendError, inflight,
          last, idA, idB, idC, idOut, mounted, orphans,
          data, objects, isUploading, tasks, uploads>>

chatId(c) == getChatId(currentUser[c], partner[c])

\* --------------------------------------------------------------- the store
AllDocs == UNION {msgs[ch] : ch \in ChatIds}
AllWrites == UNION {inflight[c] : c \in Clients} \cup orphans
UsedIds == {d.id : d \in AllDocs} \cup {w.id : w \in AllWrites}
\* doc(collection(...)) makes an id no other document has.  Ids are compared
\* only between documents of equal createdAt, so which unused id it is makes
\* no difference, and one stands for all.
FreshId == CHOOSE i \in Ids : i \notin UsedIds

\* d sorts before e under orderBy('createdAt', 'asc'); equal timestamps
\* fall back to the document id.
DocBefore(d, e) ==
  \/ d.data.createdAt < e.data.createdAt
  \/ d.data.createdAt = e.data.createdAt /\ d.id < e.id

RECURSIVE SortDocs(_)
SortDocs(S) ==
  IF S = {} THEN <<>>
  ELSE LET first == CHOOSE d \in S : \A e \in S \ {d} : DocBefore(d, e)
       IN <<first>> \o SortDocs(S \ {first})

\* query(collection(db,'chats',chatId,'messages'), orderBy('createdAt','asc'))
OrderedMessages(ch) == SortDocs(msgs[ch])

\* The read rule the code relies on (ChatView.tsx lines 47-48, 84-86): the
\* messages of a conversation are readable by its participants once the
\* conversation document exists.
CanRead(u, ch) ==
  /\ meta[ch].exists
  /\ \E i \in DOMAIN meta[ch].participants : meta[ch].participants[i] = u

\* Faulty variant of ApplyBatch: the metadata upsert is applied without the append.
ApplyBatchMetaOnly(w) ==
  [msgs |-> msgs,
   meta |-> [meta EXCEPT ![w.chat] =
               [exists |-> TRUE,
                participants |-> w.participants,
                lastMessageText |-> w.text,
                lastMessageTimestamp |-> clock + 1]],
   clock |-> clock + 1]

\* Faulty variant of ApplyBatch: the append replaces the log of the conversation.
ApplyBatchOverwrite(w) ==
  [msgs |-> [msgs EXCEPT ![w.chat] =
               {[id |-> w.id,
                 data |-> [senderId |-> w.senderId, text |-> w.text,
                           createdAt |-> clock + 1]]}],
   meta |-> [meta EXCEPT ![w.chat] =
               [exists |-> TRUE,
                participants |-> w.participants,
                lastMessageText |-> w.text,
                lastMessageTimestamp |-> clock + 1]],
   clock |-> clock + 1]

\* Faulty variant of ApplyBatch: the conversation document is written only
\* when it does not exist yet.
ApplyBatchCreateOnly(w) ==
  [msgs |-> [msgs EXCEPT ![w.chat] = @ \cup
               {[id |-> w.id,
                 data |-> [senderId |-> w.senderId, text |-> w.text,
                           createdAt |-> clock + 1]]}],
   meta |-> IF meta[w.chat].exists THEN meta
            ELSE [meta EXCEPT ![w.chat] =
                    [exists |-> TRUE,
                     participants |-> w.participants,
                     lastMessageText |-> w.text,
                     lastMessageTimestamp |-> clock + 1]],
   clock |-> clock + 1]

\* batch.commit() accepted by the store: both writes of the batch are applied
\* in one step, and both serverTimestamp() fields take the commit time.  The
\* commits of one conversation all write its document, so the store orders
\* them and gives each a later time than the one before.
ApplyBatch(w) ==
  [msgs |-> [msgs EXCEPT ![w.chat] = @ \cup
               {[id |-> w.id,
                 data |-> [senderId |-> w.senderId, text |-> w.text,
                           createdAt |-> clock + 1]]}],
   meta |-> [meta EXCEPT ![w.chat] =
               [exists |-> TRUE,
                participants |-> w.participants,
                lastMessageText |-> w.text,
                lastMessageTimestamp |-> clock + 1]],
   clock |-> clock + 1]

\* ------------------------------------------------------------ the ChatView
Off == [st |-> "off", seen |-> -1]
Closed == [st |-> "closed", seen |-> -1]
Listening == [st |-> "live", seen |-> -1]

\* The record of the step just taken.
Step(op, c, chat, code, flag, draft) ==
  [op |-> op, c |-> c, chat |-> chat, code |-> code, flag |-> flag,
   draft |-> draft]

\* A step no property looks back at.
Quiet == Step("other", None, NoChat, None, FALSE, <<>>)

\* { id: doc.id, ...doc.data() }
ToMessage(d) ==
  [id |-> d.id, senderId |-> d.data.senderId, text |-> d.data.text,
   createdAt |-> d.data.createdAt]

\* snapshot.forEach over the first k documents of the query's order.
FetchedMessages(ch, k) ==
  [i \in 1 .. k |-> ToMessage(OrderedMessages(ch)[i])]

\* useState initial values, lines 20-25.
InitialView(c) ==
  /\ messages[c] = <<>>
  /\ newMessage[c] = <<>>
  /\ isLoading[c] = TRUE
  /\ isSending[c] = FALSE
  /\ fetchError[c] = None
  /\ sendError[c] = None

StartState ==
  /\ msgs = [ch \in ChatIds |-> {}]
  /\ meta = [ch \in ChatIds |-> NoDoc]
  /\ clock = 0
  /\ partner \in {f \in [Clients -> Users] : \A c \in Clients : f[c] \in Partners(c)}
  /\ effectChat = [c \in Clients |-> NoChat]
  /\ subs = [c \in Clients |-> [ch \in ChatIds |-> Off]]
  /\ messages = [c \in Clients |-> <<>>]
  /\ newMessage = [c \in Clients |-> <<>>]
  /\ isLoading = [c \in Clients |-> TRUE]
  /\ isSending = [c \in Clients |-> FALSE]
  /\ fetchError = [c \in Clients |-> None]
  /\ sendError = [c \in Clients |-> None]
  /\ inflight = [c \in Clients |-> {}]
  /\ last = Step("init", None, NoChat, None, FALSE, <<>>)
  /\ mounted = [c \in Clients |-> TRUE]
  /\ orphans = {}

\* ImageData with no image (src: null, no storagePath), and the useState
\* initial value of ImageWidget.tsx line 17; storage is empty.
Null == <<>>
NoImage == [title |-> "title", src |-> Null, storagePath |-> Null]

WidgetStart ==
  /\ data = NoImage
  /\ objects = {}
  /\ isUploading = FALSE
  /\ tasks = {}
  /\ uploads = 0

\* Both views have rendered once, their effects not yet run; the store is
\* empty.
Init ==
  /\ StartState
  /\ WidgetStart
  /\ idA = <<>> /\ idB = <<>> /\ idC = <<>> /\ idOut = <<>>

\* Faulty variant of RunEffect: the previous subscription is left listening.
RunEffectNoCleanup(c) ==
  /\ effectChat[c] # chatId(c)
  /\ isLoading' = [isLoading EXCEPT ![c] = TRUE]
  /\ fetchError' = [fetchError EXCEPT ![c] = None]
  /\ subs' = [subs EXCEPT ![c][chatId(c)] = Listening]
  /\ effectChat' = [effectChat EXCEPT ![c] = chatId(c)]
  /\ last' = Step("effect", c, chatId(c), None, FALSE, <<>>)
  /\ UNCHANGED <<storeVars, partner, messages, newMessage,
                 isSending, sendError, inflight, asideVars, lifeVars>>

\* The subscription effect, lines 30-61: it runs after the first render and
\* after a render in which chatId differs from the one it last ran with; the
\* cleanup of the previous run (line 60) comes first.
RunEffect(c) ==
  /\ effectChat[c] # chatId(c)
  /\ isLoading' = [isLoading EXCEPT ![c] = TRUE]
  /\ fetchError' = [fetchError EXCEPT ![c] = None]
  /\ subs' = [subs EXCEPT ![c] =
               [ch \in ChatIds |->
                  IF ch = chatId(c) THEN Listening
                  ELSE IF ch = effectChat[c] THEN Closed
                  ELSE @[ch]]]
  /\ effectChat' = [effectChat EXCEPT ![c] = chatId(c)]
  /\ last' = Step("effect", c, chatId(c), None, FALSE, <<>>)
  /\ UNCHANGED <<storeVars, partner, messages, newMessage,
                 isSending, sendError, inflight, asideVars, lifeVars>>

\* The parent renders the view with another chatPartner (line 19, 28).
SetPartner(c, p) ==
  /\ p \in Partners(c) \ {partner[c]}
  /\ partner' = [partner EXCEPT ![c] = p]
  /\ last' = Quiet
  /\ UNCHANGED <<storeVars, effectChat, subs, messages, newMessage,
                 isLoading, isSending, fetchError, sendError, inflight,
                 asideVars, lifeVars>>

\* Faulty variant of SnapshotCallback: the documents are added to the list.
SnapshotCallbackAppends(c, ch, k) ==
  /\ messages' = [messages EXCEPT ![c] = @ \o FetchedMessages(ch, k)]
  /\ fetchError' = [fetchError EXCEPT ![c] = None]
  /\ isLoading' = [isLoading EXCEPT ![c] = FALSE]

\* The snapshot callback, lines 38-45, given the first k documents of the
\* query's order.
SnapshotCallback(c, ch, k) ==
  /\ messages' = [messages EXCEPT ![c] = FetchedMessages(ch, k)]
  /\ fetchError' = [fetchError EXCEPT ![c] = None]
  /\ isLoading' = [isLoading EXCEPT ![c] = FALSE]

\* Faulty variant of ErrorCallback: every error is surfaced.
ErrorCallbackAlwaysSurfaced(c, code) ==
  /\ messages' = messages
  /\ fetchError' = [fetchError EXCEPT ![c] = FetchFailedMsg]
  /\ isLoading' = [isLoading EXCEPT ![c] = FALSE]

\* The error callback, lines 46-58.
ErrorCallback(c, code) ==
  /\ IF code = PermissionDenied
     THEN /\ messages' = [messages EXCEPT ![c] = <<>>]
          /\ fetchError' = [fetchError EXCEPT ![c] = None]
     ELSE /\ messages' = messages
          /\ fetchError' = [fetchError EXCEPT ![c] = FetchFailedMsg]
  /\ isLoading' = [isLoading EXCEPT ![c] = FALSE]

\* The store delivers a snapshot to a listener of client c on conversation
\* ch: the whole current result at first, then the result after one or more
\* further commits.  A conversation that does not exist yet has an empty
\* result where the rules let it be read.
OnSnapshot(c, ch, k) ==
  /\ subs[c][ch].st = "live"
  /\ LET n == Cardinality(msgs[ch])
         seen == subs[c][ch].seen
     IN IF meta[ch].exists
        THEN /\ CanRead(currentUser[c], ch)
             /\ IF seen = -1 THEN k = n ELSE seen < k /\ k <= n
        ELSE seen = -1 /\ k = 0
  /\ SnapshotCallback(c, ch, k)
  /\ subs' = [subs EXCEPT ![c][ch].seen = k]
  /\ last' = Step("snapshot", c, ch, None, meta[ch].exists, <<>>)
  /\ UNCHANGED <<storeVars, partner, effectChat, newMessage,
                 isSending, sendError, inflight, asideVars, lifeVars>>

\* The rules refuse the listener: the conversation document is missing (or
\* does not list the user).  An error ends the listener.
RulesDeny(c, ch) ==
  /\ subs[c][ch].st = "live"
  /\ ~CanRead(currentUser[c], ch)
  /\ ErrorCallback(c, PermissionDenied)
  /\ subs' = [subs EXCEPT ![c][ch].st = "dead"]
  /\ last' = Step("error", c, ch, PermissionDenied, meta[ch].exists, <<>>)
  /\ UNCHANGED <<storeVars, partner, effectChat, newMessage,
                 isSending, sendError, inflight, asideVars, lifeVars>>

\* The listener fails for a reason of the environment: the network, or the
\* user's access being withdrawn.  An error ends the listener.
ListenerFault(c, ch, code) ==
  /\ subs[c][ch].st = "live"
  /\ ErrorCallback(c, code)
  /\ subs' = [subs EXCEPT ![c][ch].st = "dead"]
  /\ last' = Step("error", c, ch, code, meta[ch].exists, <<>>)
  /\ UNCHANGED <<storeVars, partner, effectChat, newMessage,
                 isSending, sendError, inflight, asideVars, lifeVars>>

\* onChange of the input, line 161.
Type(c, d) ==
  /\ d \in Drafts(c) \ {newMessage[c]}
  /\ newMessage' = [newMessage EXCEPT ![c] = d]
  /\ last' = Quiet
  /\ UNCHANGED <<storeVars, partner, effectChat, subs, messages,
                 isLoading, isSending, fetchError, sendError, inflight,
                 asideVars, lifeVars>>

\* The batch built at lines 76-98, from what the input holds.  Two fields
\* are history: the input as it was, and the store's time when it was built.
Batch(c, id) ==
  [chat |-> chatId(c), id |-> id, senderId |-> currentUser[c],
   participants |-> <<currentUser[c], partner[c]>>,
   text |-> Trim(newMessage[c]),
   draft |-> newMessage[c], base |-> clock]

\* handleSendMessage up to the await, lines 70-100, with the guard given.
SubmitGuarded(c, skip) ==
  /\ IF skip
     THEN /\ last' = Step("submit-skipped", c, NoChat, None, FALSE, <<>>)
          /\ UNCHANGED <<isSending, sendError, newMessage, inflight>>
     ELSE /\ Cardinality(AllDocs) + Cardinality(AllWrites) < MaxMsgs
          /\ inflight' = [inflight EXCEPT ![c] = @ \cup {Batch(c, FreshId)}]
          /\ isSending' = [isSending EXCEPT ![c] = TRUE]
          /\ sendError' = [sendError EXCEPT ![c] = None]
          /\ newMessage' = [newMessage EXCEPT ![c] = <<>>]
          /\ last' = Quiet
  /\ UNCHANGED <<storeVars, partner, effectChat, subs, messages,
                 isLoading, fetchError, asideVars, lifeVars>>

\* Faulty variant of Submit: a send in flight does not stop another.
SubmitWhileSending(c) == SubmitGuarded(c, Trim(newMessage[c]) = <<>>)

\* Faulty variant of Submit: the draft is not looked at.
SubmitEmpty(c) == SubmitGuarded(c, isSending[c])

\* The form is submitted: handleSendMessage, lines 70-100.
Submit(c) == SubmitGuarded(c, Trim(newMessage[c]) = <<>> \/ isSending[c])

\* Faulty variant of SendSucceeds: the sent message is put into the list and
\* the input is cleared again.
SendSucceedsWritesView(c) ==
  /\ \E w \in inflight[c] :
       /\ msgs' = ApplyBatch(w).msgs
       /\ meta' = ApplyBatch(w).meta
       /\ clock' = ApplyBatch(w).clock
       /\ inflight' = [inflight EXCEPT ![c] = @ \ {w}]
       /\ messages' = [messages EXCEPT ![c] = @ \o
                         <<[id |-> w.id, senderId |-> w.senderId,
                            text |-> w.text, createdAt |-> clock + 1]>>]
       /\ last' = Step("send-ok", c, w.chat, None,
                       \E d \in msgs[w.chat] : d.data.createdAt > w.base,
                       <<>>)
  /\ isSending' = [isSending EXCEPT ![c] = FALSE]
  /\ newMessage' = [newMessage EXCEPT ![c] = <<>>]
  /\ UNCHANGED <<partner, effectChat, subs,
                 isLoading, fetchError, sendError, asideVars, lifeVars>>

\* The store accepts the batch: line 100 returns and the
\* finally block runs.
SendSucceeds(c) ==
  /\ \E w \in inflight[c] :
       /\ msgs' = ApplyBatch(w).msgs
       /\ meta' = ApplyBatch(w).meta
       /\ clock' = ApplyBatch(w).clock
       /\ inflight' = [inflight EXCEPT ![c] = @ \ {w}]
       /\ last' = Step("send-ok", c, w.chat, None,
                       \E d \in msgs[w.chat] : d.data.createdAt > w.base,
                       <<>>)
  /\ isSending' = [isSending EXCEPT ![c] = FALSE]
  /\ UNCHANGED <<partner, effectChat, subs, messages, newMessage,
                 isLoading, fetchError, sendError, asideVars, lifeVars>>

\* Faulty variant of SendFails: the draft is left as it is.
SendFailsNoRevert(c, code) ==
  /\ \E w \in inflight[c] :
       /\ inflight' = [inflight EXCEPT ![c] = @ \ {w}]
       /\ newMessage' = newMessage
       /\ last' = Step("send-failed", c, w.chat, code, FALSE,
                       newMessage[c])
  /\ sendError' = [sendError EXCEPT ![c] =
                     IF code = PermissionDenied THEN SendDeniedMsg
                     ELSE SendFailedMsg]
  /\ isSending' = [isSending EXCEPT ![c] = FALSE]
  /\ UNCHANGED <<storeVars, partner, effectChat, subs, messages,
                 isLoading, fetchError, asideVars, lifeVars>>

\* Faulty variant of SendFails: no finally block.
SendFailsStaysSending(c, code) ==
  /\ \E w \in inflight[c] :
       /\ inflight' = [inflight EXCEPT ![c] = @ \ {w}]
       /\ newMessage' = [newMessage EXCEPT ![c] = w.text]
       /\ last' = Step("send-failed", c, w.chat, code, FALSE,
                       newMessage[c])
  /\ sendError' = [sendError EXCEPT ![c] =
                     IF code = PermissionDenied THEN SendDeniedMsg
                     ELSE SendFailedMsg]
  /\ isSending' = isSending
  /\ UNCHANGED <<storeVars, partner, effectChat, subs, messages,
                 isLoading, fetchError, asideVars, lifeVars>>

\* The store rejects the batch: the catch and finally
\* blocks, lines 102-112.
SendFails(c, code) ==
  /\ \E w \in inflight[c] :
       /\ inflight' = [inflight EXCEPT ![c] = @ \ {w}]
       /\ newMessage' = [newMessage EXCEPT ![c] = w.text]
       /\ last' = Step("send-failed", c, w.chat, code, FALSE,
                       newMessage[c])
  /\ sendError' = [sendError EXCEPT ![c] =
                     IF code = PermissionDenied THEN SendDeniedMsg
                     ELSE SendFailedMsg]
  /\ isSending' = [isSending EXCEPT ![c] = FALSE]
  /\ UNCHANGED <<storeVars, partner, effectChat, subs, messages,
                 isLoading, fetchError, asideVars, lifeVars>>

\* Faulty variant of Unmount: the listener is left subscribed.
UnmountNoCleanup(c) ==
  /\ mounted[c]
  /\ mounted' = [mounted EXCEPT ![c] = FALSE]
  /\ subs' = subs
  /\ effectChat' = [effectChat EXCEPT ![c] = NoChat]
  /\ orphans' = orphans \cup inflight[c]
  /\ inflight' = [inflight EXCEPT ![c] = {}]
  /\ messages' = [messages EXCEPT ![c] = <<>>]
  /\ newMessage' = [newMessage EXCEPT ![c] = <<>>]
  /\ isLoading' = [isLoading EXCEPT ![c] = TRUE]
  /\ isSending' = [isSending EXCEPT ![c] = FALSE]
  /\ fetchError' = [fetchError EXCEPT ![c] = None]
  /\ sendError' = [sendError EXCEPT ![c] = None]
  /\ last' = Step("unmount", c, effectChat[c], None, FALSE, <<>>)
  /\ UNCHANGED <<storeVars, partner, asideVars>>

\* The parent stops rendering the view: the cleanup of the effect runs
\* (line 60) and the state of the instance is gone (lines 20-25 give the next
\* instance its initial state).  A batch given to the store stays with the
\* store.
Unmount(c) ==
  /\ mounted[c]
  /\ mounted' = [mounted EXCEPT ![c] = FALSE]
  /\ subs' = [subs EXCEPT ![c] =
               [ch \in ChatIds |-> IF ch = effectChat[c] THEN Closed ELSE @[ch]]]
  /\ effectChat' = [effectChat EXCEPT ![c] = NoChat]
  /\ orphans' = orphans \cup inflight[c]
  /\ inflight' = [inflight EXCEPT ![c] = {}]
  /\ messages' = [messages EXCEPT ![c] = <<>>]
  /\ newMessage' = [newMessage EXCEPT ![c] = <<>>]
  /\ isLoading' = [isLoading EXCEPT ![c] = TRUE]
  /\ isSending' = [isSending EXCEPT ![c] = FALSE]
  /\ fetchError' = [fetchError EXCEPT ![c] = None]
  /\ sendError' = [sendError EXCEPT ![c] = None]
  /\ last' = Step("unmount", c, effectChat[c], None, FALSE, <<>>)
  /\ UNCHANGED <<storeVars, partner, asideVars>>

\* The parent renders a new instance of the view, with chat partner p; its
\* effect has not run yet.
Mount(c, p) ==
  /\ ~mounted[c]
  /\ p \in Partners(c)
  /\ mounted' = [mounted EXCEPT ![c] = TRUE]
  /\ partner' = [partner EXCEPT ![c] = p]
  /\ last' = Step("mount", c, NoChat, None, FALSE, <<>>)
  /\ UNCHANGED <<storeVars, effectChat, subs, messages, newMessage,
                 isLoading, isSending, fetchError, sendError, inflight,
                 orphans, asideVars>>

\* The store resolves a batch whose view is gone: it is applied or not, and
\* the continuation after line 100 sets the state of an unmounted instance,
\* which changes nothing.
OrphanResolves(ok) ==
  /\ \E w \in orphans :
       /\ orphans' = orphans \ {w}
       /\ IF ok
          THEN /\ msgs' = ApplyBatch(w).msgs
               /\ meta' = ApplyBatch(w).meta
               /\ clock' = ApplyBatch(w).clock
          ELSE UNCHANGED storeVars
  /\ last' = Quiet
  /\ UNCHANGED <<viewVars, inflight, mounted, asideVars>>

\* What the view of client c can do.
ViewNext(c) ==
  \/ RunEffect(c)
  \/ \E p \in Users : SetPartner(c, p)
  \/ \E ch \in ChatIds, k \in 0 .. MaxMsgs : OnSnapshot(c, ch, k)
  \/ \E ch \in ChatIds : RulesDeny(c, ch)
  \/ \E ch \in ChatIds, code \in ErrorCodes : ListenerFault(c, ch, code)
  \/ \E code \in ErrorCodes : SendFails(c, code)

\* What the composer of client c can do, and the store with its batch.
SendNext(c) ==
  \/ \E d \in Drafts(c) : Type(c, d)
  \/ Submit(c)
  \/ SendSucceeds(c)

\* One view in full, beside the partner's client, which only sends: the
\* partner's own view of the log has no part in what the first view shows.
Next ==
  \/ ViewNext("c1")
  \/ \E c \in Clients : SendNext(c)

Spec == Init /\ [][Next]_vars

\* The views of both participants, each staying with its conversation, with
\* a store and a network that do not fail.
DuoNext ==
  \E c \in Clients :
    \/ RunEffect(c)
    \/ \E ch \in ChatIds, k \in 0 .. MaxMsgs : OnSnapshot(c, ch, k)
    \/ \E ch \in ChatIds : RulesDeny(c, ch)
    \/ SendNext(c)

DuoSpec == Init /\ [][DuoNext]_vars

\* What the listeners of the view of client c can do while it is mounted.
ListenNext(c) ==
  \/ RunEffect(c)
  \/ \E p \in Users : SetPartner(c, p)
  \/ \E ch \in ChatIds, k \in 0 .. MaxMsgs : OnSnapshot(c, ch, k)
  \/ \E ch \in ChatIds : RulesDeny(c, ch)
  \/ \E ch \in ChatIds : ListenerFault(c, ch, Unavailable)

\* One view through its whole life: mounted, shown with one partner or the
\* other, unmounted and mounted again.  The store accepts the batches of a
\* mounted view; those left behind by an unmounted one it accepts or not.
LifeNext ==
  \/ \E p \in Users : Mount("c1", p)
  \/ Unmount("c1")
  \/ mounted["c1"] /\ ListenNext("c1")
  \/ mounted["c1"] /\ SendNext("c1")
  \/ \E ok \in BOOLEAN : OrphanResolves(ok)

LifeSpec == Init /\ [][LifeNext]_vars

\* The store resolves the batch of client c, one way or the other.
Resolve(c) == SendSucceeds(c) \/ \E code \in ErrorCodes : SendFails(c, code)

\* One view and both composers, with a store that resolves every commit it
\* is given: the promise of line 100 settles.
ResolvingNext ==
  \/ RunEffect("c1")
  \/ \E ch \in ChatIds, k \in 0 .. MaxMsgs : OnSnapshot("c1", ch, k)
  \/ \E ch \in ChatIds : RulesDeny("c1", ch)
  \/ \E c \in Clients : SendNext(c)
  \/ \E c \in Clients, code \in ErrorCodes : SendFails(c, code)

ResolvingSpec ==
  /\ Init
  /\ [][ResolvingNext]_vars
  /\ \A c \in Clients : WF_vars(Resolve(c))

\* ------------------------------------------------- getChatId on its own
IdChars == {"_", "1", "2", "u"}
\* The non-empty identifiers of at most MaxIdLen characters.
IdStrings == UNION {[1 .. n -> IdChars] : n \in 1 .. MaxIdLen}

IdInit ==
  /\ StartState
  /\ WidgetStart
  /\ idA \in IdStrings
  /\ idB \in IdStrings \ {idA}
  /\ idC = <<>>
  /\ idOut = <<>>

\* Line 28, as the view of either participant evaluates it.
DeriveIds ==
  /\ idOut = <<>>
  /\ idOut' = <<getChatId(idA, idB), getChatId(idB, idA)>>
  /\ UNCHANGED <<storeVars, viewVars, inflight, last, idA,
                 idB, idC, lifeVars, imageVars>>

IdSpec == IdInit /\ [][DeriveIds]_vars

\* Identifiers of up to MaxUidLen characters, the separator among them.
UidChars == {"_", "1", "u"}
UidStrings == UNION {[1 .. n -> UidChars] : n \in 1 .. MaxUidLen}

\* One user and two different partners.
PartnersInit ==
  /\ StartState
  /\ WidgetStart
  /\ idA \in UidStrings
  /\ idB \in UidStrings \ {idA}
  /\ idC \in UidStrings \ {idA, idB}
  /\ idOut = <<>>

\* Line 28, as the view of user idA evaluates it with either partner.
DerivePartnerIds ==
  /\ idOut = <<>>
  /\ idOut' = <<getChatId(idA, idB), getChatId(idA, idC)>>
  /\ UNCHANGED <<storeVars, viewVars, inflight, last, idA,
                 idB, idC, lifeVars, imageVars>>

PartnersSpec == PartnersInit /\ [][DerivePartnerIds]_vars

\* ------------------------------------------------------- the ImageWidget
\* The variables of the chat.
chatVars == <<storeVars, viewVars, inflight, last, lifeVars, idVars>>

\* `images/${uuidv4()}-${file.name}`, line 43: a path not made before.
NewStoragePath == <<"images", uploads + 1>>

\* What getDownloadURL gives for the object at path p.
DownloadURL(p) == <<"url">> \o p

\* Faulty variant of handleUpdate: storagePath is kept when src is removed.
handleUpdateKeepsPath(d, updates) ==
  [f \in DOMAIN d |-> IF f \in DOMAIN updates THEN updates[f] ELSE d[f]]

\* handleUpdate, lines 19-26, in a handler that was made with data = d: the
\* updates are spread over d, storagePath is deleted when src is set to
\* null, and the result is what updateData is called with.
handleUpdate(d, updates) ==
  LET newData == [f \in DOMAIN d |->
                    IF f \in DOMAIN updates THEN updates[f] ELSE d[f]]
  IN IF "src" \in DOMAIN updates /\ updates.src = Null
     THEN [newData EXCEPT !.storagePath = Null]
     ELSE newData

\* A handler waiting at an await: what it is waiting for, the data of the
\* render it was made in, and the path it uploads to.
Task(kind, at, d, path) == [kind |-> kind, at |-> at, d |-> d, path |-> path]

\* handleFileChange up to its first await, lines 28-47: a file is chosen in
\* the input, which is disabled while uploading (line 120).
FileChange ==
  /\ ~isUploading
  /\ uploads < MaxUploads
  /\ isUploading' = TRUE
  /\ uploads' = uploads + 1
  /\ tasks' = tasks \cup
       {Task("upload",
             IF data.storagePath # Null THEN "deleteObject" ELSE "uploadBytes",
             data, NewStoragePath)}
  /\ UNCHANGED <<data, objects, chatVars>>

\* deleteObject(oldRef) settles, lines 36-40: a failure is logged and the
\* upload goes on.  Deleting an object that does not exist fails.
OldImageDeleted(ok) ==
  \E t \in tasks :
    /\ t.kind = "upload" /\ t.at = "deleteObject"
    /\ ok => t.d.storagePath \in objects
    /\ objects' = IF ok THEN objects \ {t.d.storagePath} ELSE objects
    /\ tasks' = (tasks \ {t}) \cup {[t EXCEPT !.at = "uploadBytes"]}
    /\ UNCHANGED <<data, isUploading, uploads, chatVars>>

\* uploadBytes settles, lines 47, 50-54.
Uploaded(ok) ==
  \E t \in tasks :
    /\ t.kind = "upload" /\ t.at = "uploadBytes"
    /\ IF ok
       THEN /\ objects' = objects \cup {t.path}
            /\ tasks' = (tasks \ {t}) \cup {[t EXCEPT !.at = "getDownloadURL"]}
            /\ UNCHANGED isUploading
       ELSE /\ tasks' = tasks \ {t}
            /\ isUploading' = FALSE
            /\ UNCHANGED objects
    /\ UNCHANGED <<data, uploads, chatVars>>

\* getDownloadURL settles, lines 48-54.
GotDownloadURL(ok) ==
  \E t \in tasks :
    /\ t.kind = "upload" /\ t.at = "getDownloadURL"
    /\ data' = IF ok
               THEN handleUpdate(t.d, [src |-> DownloadURL(t.path),
                                       storagePath |-> t.path])
               ELSE data
    /\ tasks' = tasks \ {t}
    /\ isUploading' = FALSE
    /\ UNCHANGED <<objects, uploads, chatVars>>

\* removeImage up to its await, lines 68-76: the button is rendered with the
\* image (lines 91-102).
RemoveImage ==
  /\ ~isUploading
  /\ data.src # Null
  /\ IF data.storagePath = Null
     THEN /\ data' = handleUpdate(data, [src |-> Null])
          /\ UNCHANGED tasks
     ELSE /\ tasks' = tasks \cup {Task("remove", "deleteObject", data, Null)}
          /\ UNCHANGED data
  /\ UNCHANGED <<objects, isUploading, uploads, chatVars>>

\* deleteObject(fileRef) settles, lines 76-80.
ImageDeleted(ok) ==
  \E t \in tasks :
    /\ t.kind = "remove"
    /\ ok => t.d.storagePath \in objects
    /\ objects' = IF ok THEN objects \ {t.d.storagePath} ELSE objects
    /\ data' = IF ok THEN handleUpdate(t.d, [src |-> Null]) ELSE data
    /\ tasks' = tasks \ {t}
    /\ UNCHANGED <<isUploading, uploads, chatVars>>

ImageNext ==
  \/ FileChange
  \/ \E ok \in BOOLEAN : OldImageDeleted(ok)
  \/ \E ok \in BOOLEAN : Uploaded(ok)
  \/ \E ok \in BOOLEAN : GotDownloadURL(ok)
  \/ RemoveImage
  \/ \E ok \in BOOLEAN : ImageDeleted(ok)

ImageSpec == Init /\ [][ImageNext]_vars

\* ------------------------------------------------------------ properties
\* The view of client c holds message document d, after messages of no
\* later createdAt.
Delivered(c, d) ==
  \E i \in DOMAIN messages[c] :
    /\ messages[c][i] = ToMessage(d)
    /\ \A j \in 1 .. i - 1 : messages[c][j].createdAt <= messages[c][i].createdAt

\* The listener of client c on conversation ch has a snapshot or an error
\* still to come.
Pending(c, ch) ==
  /\ subs[c][ch].st = "live"
  /\ \/ subs[c][ch].seen # Cardinality(msgs[ch])
     \/ ~CanRead(currentUser[c], ch)

\* The effect of client c has run, its send is resolved and no listener of
\* its view has anything still to come.
Settled(c) ==
  /\ effectChat[c] = chatId(c)
  /\ inflight[c] = {}
  /\ \A ch \in ChatIds : ~Pending(c, ch)

\* C1 (as claimed): after a successful send the sender's subscription
\* delivers a list that holds the message, with the sender's id and text and
\* a createdAt not below that of the messages before it.  Stated of the
\* states in which nothing is left to be delivered to the sender: there the
\* message has been delivered.
C1_SentMessageIsDelivered ==
  \A c \in Clients :
    \A d \in msgs[chatId(c)] :
      (d.data.senderId = currentUser[c] /\ Settled(c)) => Delivered(c, d)

\* The last step was a callback of a listener on a conversation that did
\* not exist then, and was not a failure of the network.
FreshCallback ==
  /\ last.op \in {"snapshot", "error"}
  /\ ~last.flag
  /\ last.code # Unavailable

\* C2: for a conversation with no messages yet, the subscription's answer
\* leaves isLoading false, messages empty and fetchError null, also when the
\* answer is permission-denied.
C2_FreshDenialIsReady ==
  FreshCallback =>
    /\ isLoading[last.c] = FALSE
    /\ messages[last.c] = <<>>
    /\ fetchError[last.c] = None

C2_Witness ==
  /\ last.op = "error"
  /\ last.code = PermissionDenied
  /\ ~last.flag
  /\ msgs[last.chat] = {}
  /\ isLoading[last.c] = FALSE

\* C3 (as claimed): a subscription error is taken as benign only when it is
\* permission-denied and no send has created the conversation yet; after any
\* other error fetchError is set, isLoading is false and the messages are
\* not replaced by an empty list.
C3_OnlyFreshDenialIsBenign ==
  (last.op = "error" /\ ~(last.code = PermissionDenied /\ ~last.flag)) =>
    /\ fetchError[last.c] # None
    /\ isLoading[last.c] = FALSE

\* C4: a snapshot or error applied to the view comes from the listener of
\* the conversation the effect last ran for, never from an earlier one.
C4_NoStaleCallback ==
  last.op \in {"snapshot", "error"} => last.chat = effectChat[last.c]

C4_Witness ==
  /\ last.op = "snapshot"
  /\ last.chat = effectChat[last.c]
  /\ \E ch \in ChatIds \ {last.chat} :
       subs[last.c][ch].st = "closed" /\ msgs[ch] # {}

\* C5: a view has at most one batch in flight, and a submit while isSending
\* adds none and changes neither the batch in flight, the store nor the
\* composer.
C5_OneSendInFlight ==
  [][\A c \in Clients :
       /\ Cardinality(inflight'[c]) <= 1
       /\ isSending[c] => inflight'[c] \subseteq inflight[c]
       /\ (last'.op = "submit-skipped" /\ last'.c = c /\ isSending[c]) =>
            UNCHANGED <<storeVars, inflight, newMessage, isSending,
                        sendError>>]_vars

C5_Witness ==
  /\ last.op = "submit-skipped"
  /\ isSending[last.c]
  /\ Trim(newMessage[last.c]) # <<>>
  /\ Cardinality(inflight[last.c]) = 1

\* C6: when the store rejects the batch, newMessage becomes the trimmed text
\* that was submitted, whatever was typed meanwhile, isSending false and
\* sendError set, and the store is as it was.
C6_FailedSendRestoresDraft ==
  [][last'.op = "send-failed" =>
       LET c == last'.c
           w == CHOOSE b \in inflight[c] : b \notin inflight'[c]
       IN /\ newMessage'[c] = Trim(w.draft)
          /\ isSending'[c] = FALSE
          /\ sendError'[c] # None
          /\ UNCHANGED storeVars]_vars

C6_Witness ==
  /\ last.op = "send-failed"
  /\ last.draft # <<>>
  /\ newMessage[last.c] = <<"a">>
  /\ sendError[last.c] = SendDeniedMsg

\* C7: a submit of an empty or whitespace-only draft issues no batch and
\* leaves the store, isSending, newMessage and sendError as they were; no
\* batch is ever built from such a draft.
C7_EmptySubmitIsNoOp ==
  [][\A c \in Clients :
       /\ (last'.op = "submit-skipped" /\ last'.c = c
             /\ Trim(newMessage[c]) = <<>>) =>
            UNCHANGED <<storeVars, inflight, newMessage, isSending,
                        sendError>>
       /\ ~(inflight'[c] \subseteq inflight[c]) => Trim(newMessage[c]) # <<>>]_vars

C7_Witness ==
  /\ last.op = "submit-skipped"
  /\ newMessage[last.c] = <<" ">>
  /\ isSending[last.c] = FALSE
  /\ sendError[last.c] # None

\* C8: in the store a conversation's document exists exactly when its log
\* holds a message, and then its lastMessageText and lastMessageTimestamp
\* are those of one message of the log.
C8_DualWriteAtomic ==
  \A ch \in ChatIds :
    /\ meta[ch].exists <=> msgs[ch] # {}
    /\ meta[ch].exists =>
         \E d \in msgs[ch] :
           /\ d.data.text = meta[ch].lastMessageText
           /\ d.data.createdAt = meta[ch].lastMessageTimestamp

C8_Witness ==
  \E ch \in ChatIds :
    /\ Cardinality(msgs[ch]) = 2
    /\ meta[ch].exists
    /\ last.op = "send-ok"

\* The list is ascending by createdAt.
Ascending(list) ==
  \A i \in DOMAIN list : \A j \in DOMAIN list :
    i < j => list[i].createdAt <= list[j].createdAt

\* C9: the sends of the two participants do not block or undo one another:
\* a batch in flight can be committed whatever the other client does, every
\* commit so far has its message in the log, and the list each view holds is
\* ascending by createdAt.
C9_ConcurrentSendsInterleave ==
  /\ \A c \in Clients : inflight[c] # {} => ENABLED SendSucceeds(c)
  /\ Cardinality(AllDocs) = clock
  /\ \A c \in Clients : Ascending(messages[c])

C9_Witness ==
  /\ last.op = "send-ok"
  /\ last.flag
  /\ {d.data.senderId : d \in msgs[last.chat]} = {U1, U2}
  /\ \E c \in Clients : Len(messages[c]) = 1

\* C10: getChatId gives the same id for either order of the two users, and
\* "u1_u2" for "u1" and "u2".
C10_ChatIdSymmetric ==
  idOut # <<>> =>
    /\ idOut[1] = idOut[2]
    /\ {idA, idB} = {U1, U2} => idOut[1] = <<"u", "1", "_", "u", "2">>

C10_Witness ==
  /\ idA = U2
  /\ idB = U1
  /\ idOut = << <<"u", "1", "_", "u", "2">>, <<"u", "1", "_", "u", "2">> >>

\* C11 (as claimed): getChatId tells the partners of a user apart: for
\* non-empty identifiers a, b, c with b # c, of any characters, the separator
\* '_' among them, getChatId(a, b) # getChatId(a, c).
C11_PartnersGetDistinctIds ==
  (idOut # <<>> /\ idB # idC) => idOut[1] # idOut[2]

\* The conversations client c has a live listener on.
LiveSubs(c) == {ch \in ChatIds : subs[c][ch].st = "live"}

\* C12: a view has at most one live listener at any time, and it is the one
\* of the conversation the effect last ran for; a view that is unmounted has
\* none.  This holds for every sequence of mounts, changes of partner and
\* unmounts.
C12_OneLiveSubscription ==
  \A c \in Clients :
    /\ Cardinality(LiveSubs(c)) <= 1
    /\ LiveSubs(c) \subseteq {effectChat[c]}
    /\ ~mounted[c] => LiveSubs(c) = {}

C12_Witness ==
  /\ last.op = "effect"
  /\ last.c = "c1"
  /\ LiveSubs("c1") = {last.chat}
  /\ \E ch \in ChatIds \ {last.chat} : subs["c1"][ch].st = "closed"
  /\ orphans # {}

\* The view of client c holds a message of a conversation other than ch.
HoldsMessageOfOther(c, ch) ==
  \E i \in DOMAIN messages[c] :
    \E other \in ChatIds \ {ch} :
      \E d \in msgs[other] : messages[c][i] = ToMessage(d)

\* C13 (as claimed): when the effect has entered Loading for a new
\* conversation, isLoading is true, fetchError is null and messages holds no
\* message of the previous conversation.
C13_ResetOnConversationChange ==
  last.op = "effect" =>
    /\ isLoading[last.c] = TRUE
    /\ fetchError[last.c] = None
    /\ ~HoldsMessageOfOther(last.c, last.chat)

\* The list is the log of conversation ch as it stood at some commit: its
\* elements are documents of the log, each once, in the order of the query,
\* and no earlier document of the log is missing.
IsLogSnapshot(list, ch) ==
  /\ \A i \in DOMAIN list : \E d \in msgs[ch] : list[i] = ToMessage(d)
  /\ \A i \in DOMAIN list : \A j \in DOMAIN list :
       i < j => \/ list[i].createdAt < list[j].createdAt
                \/ list[i].createdAt = list[j].createdAt /\ list[i].id < list[j].id
  /\ \A d \in msgs[ch] :
       (\E i \in DOMAIN list : d.data.createdAt <= list[i].createdAt) =>
         \E i \in DOMAIN list : list[i] = ToMessage(d)

\* C14: after every snapshot delivered to a view, the first or a later one,
\* of an empty log or not, messages is exactly the delivered sequence, a
\* snapshot of the log of the listener's conversation of the length
\* delivered, isLoading is false and fetchError is null: the list is
\* replaced, not added to.
C14_DeliveryReplacesMessages ==
  last.op = "snapshot" =>
    /\ IsLogSnapshot(messages[last.c], last.chat)
    /\ Len(messages[last.c]) = subs[last.c][last.chat].seen
    /\ Len(messages[last.c]) <= Cardinality(msgs[last.chat])
    /\ last.chat = effectChat[last.c]
    /\ isLoading[last.c] = FALSE
    /\ fetchError[last.c] = None

C14_Witness ==
  /\ last.op = "snapshot"
  /\ Len(messages[last.c]) = 2
  /\ messages[last.c][1].senderId # messages[last.c][2].senderId

\* C15: the step in which a send succeeds writes neither messages nor
\* newMessage: the list is left to the listener and the input keeps what
\* was typed since the clear at submission; it sets isSending to false, and
\* sendError is null as the submission left it.
C15_SuccessfulSendFrame ==
  [][last'.op = "send-ok" =>
       /\ messages' = messages
       /\ newMessage' = newMessage
       /\ sendError' = sendError
       /\ sendError'[last'.c] = None
       /\ isSending[last'.c] = TRUE
       /\ isSending'[last'.c] = FALSE
       /\ UNCHANGED <<isLoading, fetchError>>]_vars

C15_Witness ==
  /\ last.op = "send-ok"
  /\ last.c = "c1"
  /\ newMessage["c1"] # <<>>
  /\ messages["c1"] = <<>>
  /\ msgs[chatId("c1")] # {}
  /\ isLoading["c1"] = FALSE

\* The model has room for one more batch.
Room == Cardinality(AllDocs) + Cardinality(AllWrites) < MaxMsgs

\* handleSendMessage passes its guard and gives a batch to the store.
SubmitAccepted(c) == Submit(c) /\ inflight'[c] # {}

\* C16: isSending is true exactly while a batch of the view is with the
\* store; the step that resolves it, accepted or rejected, leaves isSending
\* false with sendError null or set accordingly; a submit is skipped only
\* for an empty draft or a send in flight, so that a view that is not
\* sending accepts a draft with text; and a view that is sending comes to be
\* not sending.
C16_SendTerminates ==
  /\ [](\A c \in Clients :
         /\ isSending[c] <=> inflight[c] # {}
         /\ (~isSending[c] /\ Trim(newMessage[c]) # <<>> /\ Room) =>
              ENABLED SubmitAccepted(c))
  /\ [][\A c \in Clients :
         /\ (last'.op \in {"send-ok", "send-failed"} /\ last'.c = c) =>
              /\ isSending[c] /\ ~isSending'[c]
              /\ inflight'[c] = {}
              /\ (sendError'[c] = None) <=> (last'.op = "send-ok")
         /\ (last'.op = "submit-skipped" /\ last'.c = c) =>
              (isSending[c] \/ Trim(newMessage[c]) = <<>>)]_vars
  /\ \A c \in Clients : isSending[c] ~> ~isSending[c]

C16_Witness ==
  /\ last.op = "send-failed"
  /\ last.c = "c1"
  /\ ~isSending["c1"]
  /\ sendError["c1"] = SendFailedMsg
  /\ \E d \in AllDocs : d.data.senderId = U1

\* The view of client c is Ready: neither the loader nor the error is
\* rendered, the list is (lines 126-153).
Ready(c) == isLoading[c] = FALSE /\ fetchError[c] = None

\* C17 (as claimed): whenever a view is Ready, also between the render with
\* a new chatPartner and the run of the effect, every element of messages is
\* a message of the log of the current chatId.
C17_ReadyShowsCurrentConversation ==
  \A c \in Clients :
    Ready(c) =>
      \A i \in DOMAIN messages[c] :
        \E d \in msgs[chatId(c)] : messages[c][i] = ToMessage(d)

\* C18 (as claimed): the composer's state belongs to the conversation a send
\* was submitted in: a batch targets the chatId current at its submission,
\* and when the partner has changed while it was in flight, its failure
\* leaves newMessage and sendError of the view as they were, and a send in
\* flight for another conversation does not make a submit be skipped.
C18_SendStateScopedToConversation ==
  [][\A c \in Clients :
       /\ \A w \in inflight'[c] \ inflight[c] : w.chat = chatId(c)
       /\ (last'.op = "send-failed" /\ last'.c = c /\ last'.chat # chatId(c)) =>
            /\ newMessage'[c] = newMessage[c]
            /\ sendError'[c] = sendError[c]
       /\ (last'.op = "submit-skipped" /\ last'.c = c
             /\ Trim(newMessage[c]) # <<>>) =>
            \E w \in inflight[c] : w.chat = chatId(c)]_vars

\* The users whose conversation has id ch.
ParticipantsOf(ch) ==
  {u \in Users : \E v \in Users \ {u} : getChatId(u, v) = ch}

\* C19: after any commits of the two participants, concurrent ones among
\* them, the document of a conversation lists exactly its two participants,
\* and its lastMessageText and lastMessageTimestamp are the text and the
\* createdAt of the last message of the log in createdAt order.
C19_MetadataMatchesLastMessage ==
  \A ch \in ChatIds :
    msgs[ch] # {} =>
      LET log == OrderedMessages(ch)
          newest == log[Len(log)]
      IN /\ meta[ch].exists
         /\ Len(meta[ch].participants) = 2
         /\ {meta[ch].participants[i] : i \in 1 .. 2} = ParticipantsOf(ch)
         /\ Cardinality(ParticipantsOf(ch)) = 2
         /\ meta[ch].lastMessageText = newest.data.text
         /\ meta[ch].lastMessageTimestamp = newest.data.createdAt
         /\ \A d \in msgs[ch] : d.data.createdAt <= newest.data.createdAt

C19_Witness ==
  /\ last.op = "send-ok"
  /\ last.flag
  /\ last.c = "c2"
  /\ Cardinality(msgs[last.chat]) = 2
  /\ meta[last.chat].participants = <<U2, U1>>
  /\ meta[last.chat].lastMessageText = <<"b">>
  /\ \E d \in msgs[last.chat] : d.data.text = <<"a">>

\* C20 (as claimed): after any uploads and removals, failed ones among them,
\* the widget data holds no dangling reference: once every handler has
\* returned, when storagePath is set, the object at that path exists in
\* storage and src is its URL, and src is null when storagePath is not set.
C20_NoDanglingReference ==
  (tasks = {} /\ ~isUploading) =>
  /\ data.storagePath # Null =>
       /\ data.storagePath \in objects
       /\ data.src = DownloadURL(data.storagePath)
  /\ data.storagePath = Null => data.src = Null

====
